---- MODULE Spec2Model ----
(***************************************************************************)
(* Field generators of scripts/artificialproject/field_generators.py.      *)
(*                                                                         *)
(* Python strings are sequences of one-character strings, so that          *)
(* os.path.split, os.path.join, str.split and str.startswith are computed  *)
(* character by character.  A collections.Counter is a bag.                *)
(***************************************************************************)
EXTENDS Bags, FiniteSets, Integers, Sequences, TLC

(***************************************************************************)
(* Bounds of the model.                                                    *)
(***************************************************************************)
MaxSamples == 2
MaxGenerates == 2
MaxForceLength == 2
MaxCommits == 2
NumWorkers == 2
MaxAllocations == 2
MaxComponents == 3

(***************************************************************************)
(* str helpers                                                             *)
(***************************************************************************)
SLASH == "/"

StartsWith(s, prefix) ==
    /\ Len(s) >= Len(prefix)
    /\ SubSeq(s, 1, Len(prefix)) = prefix

\* s.rfind('/') + 1
RFindSlash(s) ==
    LET idx == {i \in 1..Len(s) : s[i] = SLASH}
    IN IF idx = {} THEN 0 ELSE CHOOSE i \in idx : \A j \in idx : j <= i

\* s.rstrip('/')
RStripSlash(s) ==
    LET keep == {i \in 1..Len(s) : s[i] # SLASH}
    IN IF keep = {} THEN <<>>
       ELSE SubSeq(s, 1, CHOOSE i \in keep : \A j \in keep : j <= i)

AllSlashes(s) == \A i \in 1..Len(s) : s[i] = SLASH

\* target.split('#')[0]
BeforeHash(s) ==
    LET idx == {i \in 1..Len(s) : s[i] = "#"}
    IN IF idx = {} THEN s
       ELSE SubSeq(s, 1, (CHOOSE i \in idx : \A j \in idx : i <= j) - 1)

(***************************************************************************)
(* os.path (posixpath)                                                     *)
(***************************************************************************)
\* os.path.split(p) = (head, tail), from the pieces before and after the
\* last slash
SplitHeadTail(head, tail) ==
    <<IF head # <<>> /\ ~AllSlashes(head) THEN RStripSlash(head) ELSE head,
      tail>>

SplitAt(p, i) == SplitHeadTail(SubSeq(p, 1, i), SubSeq(p, i + 1, Len(p)))

os_path_split(p) == SplitAt(p, RFindSlash(p))

os_path_dirname(p) == os_path_split(p)[1]

\* one step of the loop of os.path.join(a, *p)
JoinStep(path, b) ==
    IF StartsWith(b, <<SLASH>>) THEN b
    ELSE IF path = <<>> \/ path[Len(path)] = SLASH THEN path \o b
    ELSE path \o <<SLASH>> \o b

RECURSIVE JoinFrom(_, _)
JoinFrom(path, rest) ==
    IF rest = <<>> THEN path
    ELSE JoinFrom(JoinStep(path, Head(rest)), Tail(rest))

\* os.path.join(*components) for a non-empty sequence of components
os_path_join(components) == JoinFrom(Head(components), Tail(components))

(***************************************************************************)
(* The filesystem: a function from the existing nodes (sequences of names  *)
(* from the root directory <<>>) to "dir", "empty" (a zero-byte file) or   *)
(* "data" (a file with content).                                           *)
(***************************************************************************)
\* the position of the first slash of p, Len(p) + 1 if it has none
FirstSlash(p) ==
    LET sl == {i \in 1..Len(p) : p[i] = SLASH}
    IN IF sl = {} THEN Len(p) + 1 ELSE CHOOSE i \in sl : \A j \in sl : i <= j

RECURSIVE SplitComponents(_)

ComponentsFrom(p, k) ==
    IF k = 1 THEN SplitComponents(SubSeq(p, k + 1, Len(p)))
    ELSE <<SubSeq(p, 1, k - 1)>> \o SplitComponents(SubSeq(p, k + 1, Len(p)))

\* the names between the slashes of p
SplitComponents(p) ==
    IF p = <<>> THEN <<>> ELSE ComponentsFrom(p, FirstSlash(p))

TrailingSlash(p) == p # <<>> /\ p[Len(p)] = SLASH

Parent(node) == IF node = <<>> THEN <<>> ELSE SubSeq(node, 1, Len(node) - 1)

DOT == <<".">>
DOTDOT == <<".", ".">>

\* path resolution from an existing node cur
RECURSIVE Walk(_, _, _)
Walk(tree, cur, comps) ==
    IF comps = <<>> THEN [st |-> "ok", node |-> cur, rest |-> 0]
    ELSE IF tree[cur] # "dir" THEN [st |-> "ENOTDIR", node |-> cur, rest |-> 0]
    ELSE LET c == Head(comps)
         IN IF c = DOT THEN Walk(tree, cur, Tail(comps))
            ELSE IF c = DOTDOT THEN Walk(tree, Parent(cur), Tail(comps))
            ELSE LET nxt == Append(cur, c)
                 IN IF nxt \in DOMAIN tree THEN Walk(tree, nxt, Tail(comps))
                    ELSE [st |-> "ENOENT", node |-> nxt,
                          rest |-> Len(comps) - 1]

\* path resolution of p from the root directory
Resolve(tree, p) == Walk(tree, <<>>, SplitComponents(p))

StatAt(tree, p, w) ==
    IF w.st = "ok" /\ TrailingSlash(p) /\ tree[w.node] # "dir"
    THEN [st |-> "ENOTDIR", node |-> w.node, rest |-> 0]
    ELSE w

\* stat(2)
Stat(tree, p) == StatAt(tree, p, Resolve(tree, p))

os_path_exists(tree, p) == Stat(tree, p).st = "ok"

IsDirAt(tree, s) == s.st = "ok" /\ tree[s.node] = "dir"

os_path_isdir(tree, p) == IsDirAt(tree, Stat(tree, p))

\* adds or replaces one node
SetNode(tree, node, kind) ==
    [n \in DOMAIN tree \cup {node} |-> IF n = node THEN kind ELSE tree[n]]

MkdirAt(tree, w) ==
    IF w.st = "ok" THEN [err |-> "FileExistsError", tree |-> tree]
    ELSE IF w.st = "ENOTDIR"
    THEN [err |-> "NotADirectoryError", tree |-> tree]
    ELSE IF w.rest > 0 THEN [err |-> "FileNotFoundError", tree |-> tree]
    ELSE [err |-> "ok", tree |-> SetNode(tree, w.node, "dir")]

\* mkdir(2): [err, tree]
os_mkdir(tree, p) == MkdirAt(tree, Resolve(tree, p))

OpenAt(tree, p, w) ==
    IF w.st = "ENOTDIR" THEN [err |-> "NotADirectoryError", tree |-> tree]
    ELSE IF w.st = "ENOENT"
    THEN IF w.rest > 0 THEN [err |-> "FileNotFoundError", tree |-> tree]
         ELSE IF TrailingSlash(p)
         THEN [err |-> "IsADirectoryError", tree |-> tree]
         ELSE [err |-> "ok", tree |-> SetNode(tree, w.node, "empty")]
    ELSE IF tree[w.node] = "dir"
    THEN [err |-> "IsADirectoryError", tree |-> tree]
    ELSE IF TrailingSlash(p)
    THEN [err |-> "NotADirectoryError", tree |-> tree]
    ELSE [err |-> "ok", tree |-> SetNode(tree, w.node, "empty")]

\* open(p, 'w') followed by close: [err, tree]
open_w(tree, p) == OpenAt(tree, p, Resolve(tree, p))

\* os.makedirs: mkdir(name) and the except clause around it
MakedirsLeaf(tree, name, made) ==
    IF made.err = "ok" THEN made
    ELSE IF os_path_isdir(tree, name) THEN [err |-> "ok", tree |-> tree]
    ELSE made

\* os.makedirs after its call on head, which ended as up
MakedirsUp(name, tail, up) ==
    IF up.err \notin {"ok", "FileExistsError"} THEN up
    ELSE IF tail = DOT THEN [err |-> "ok", tree |-> up.tree]
    ELSE MakedirsLeaf(up.tree, name, os_mkdir(up.tree, name))

\* os.makedirs: "if not tail: head, tail = path.split(head)"
SplitAgain(s) == IF s[2] = <<>> THEN os_path_split(s[1]) ELSE s

RECURSIVE os_makedirs(_, _)

MakedirsFrom(tree, name, head, tail) ==
    IF head # <<>> /\ tail # <<>> /\ ~os_path_exists(tree, head)
    THEN MakedirsUp(name, tail, os_makedirs(tree, head))
    ELSE MakedirsLeaf(tree, name, os_mkdir(tree, name))

MakedirsSplit(tree, name, s) == MakedirsFrom(tree, name, s[1], s[2])

\* os.makedirs(name, exist_ok=True): [err, tree]
os_makedirs(tree, name) ==
    MakedirsSplit(tree, name, SplitAgain(os_path_split(name)))

(***************************************************************************)
(* collections.Counter and artificialproject.random.weighted_choice        *)
(***************************************************************************)
Counter == EmptyBag

\* counter.update([key])
CounterAdd(counter, key) == counter (+) SetToBag({key})

\* counter.update(keys)
RECURSIVE CounterUpdate(_, _)
CounterUpdate(counter, keys) ==
    IF keys = <<>> THEN counter
    ELSE CounterUpdate(CounterAdd(counter, Head(keys)), Tail(keys))

\* the keys weighted_choice(counter) can return: those of positive count;
\* it raises when there is none
weighted_choice(counter) == BagToSet(counter)

IsEmptyTable(counter) == BagToSet(counter) = {}

(***************************************************************************)
(* Context                                                                 *)
(***************************************************************************)
\* Context.output_repository
output_repository == <<"/", "o">>

OutputRoot == << <<"o">> >>

\* labels of the input repository and Context.input_target_data[label]
\* ['buck.type']
Label_x_a == <<"/", "/", "x", ":", "a">>
Label_y_b == <<"/", "/", "y", ":", "b">>

TargetTypes == {"lib", "bin"}

input_target_data ==
    (Label_x_a :> [buck_type |-> "lib"]) @@ (Label_y_b :> [buck_type |-> "bin"])

\* the labels the driver gives the targets it synthesizes
GenLabelDigits == <<"1", "2", "3", "4", "5", "6">>
GenLabel(n) == <<"/", "/", "g", ":", GenLabelDigits[n]>>

(***************************************************************************)
(* Constructors (__init__)                                                 *)
(***************************************************************************)
StringGenerator ==
    [cls |-> "String", lengths |-> Counter, first_chars |-> Counter,
     other_chars |-> Counter]

NullableGenerator(value_generator) ==
    [cls |-> "Nullable", value_generator |-> value_generator,
     null_values |-> Counter]

SingletonGenerator(set_generator) ==
    [cls |-> "Singleton", set_generator |-> set_generator]

BuildTargetSetGenerator ==
    [cls |-> "BuildTargetSet", lengths |-> Counter, types |-> Counter]

PathSetGenerator ==
    [cls |-> "PathSet", component_generator |-> StringGenerator,
     lengths |-> Counter, component_counts |-> Counter]

SourcePathSetGenerator ==
    [cls |-> "SourcePathSet",
     build_target_set_generator |-> BuildTargetSetGenerator,
     path_set_generator |-> PathSetGenerator,
     lengths |-> Counter, build_target_values |-> Counter]

SourcesWithFlagsGenerator ==
    [cls |-> "SourcesWithFlags",
     source_path_set_generator |-> SourcePathSetGenerator,
     flag_generator |-> StringGenerator, flag_counts |-> Counter]

(***************************************************************************)
(* add_sample                                                              *)
(***************************************************************************)
StringGenerator_add_sample(g, sample) ==
    [g EXCEPT
        !.lengths = CounterAdd(@, Len(sample)),
        !.first_chars = IF sample # <<>> THEN CounterAdd(@, sample[1]) ELSE @,
        !.other_chars = CounterUpdate(@, IF sample = <<>> THEN <<>>
                                         ELSE Tail(sample))]

\* the label looked up for one target of a sample
TargetKey(base_path, target) ==
    LET t == BeforeHash(target)
    IN IF StartsWith(t, <<":">>) THEN <<"/", "/">> \o base_path \o t ELSE t

RECURSIVE SampleTypes(_, _)
SampleTypes(base_path, sample) ==
    IF sample = <<>> THEN <<>>
    ELSE <<input_target_data[TargetKey(base_path, Head(sample))].buck_type>>
         \o SampleTypes(base_path, Tail(sample))

BuildTargetSetGenerator_add_sample(g, base_path, sample) ==
    [g EXCEPT
        !.lengths = CounterAdd(@, Len(sample)),
        !.types = CounterUpdate(@, SampleTypes(base_path, sample))]

\* the loop "while path: path, component = os.path.split(path)"
RECURSIVE PathComponents(_)
PathComponents(path) ==
    IF path = <<>> THEN <<>>
    ELSE LET s == os_path_split(path) IN <<s[2]>> \o PathComponents(s[1])

RECURSIVE StringGenerator_add_samples(_, _)
StringGenerator_add_samples(g, samples) ==
    IF samples = <<>> THEN g
    ELSE StringGenerator_add_samples(
             StringGenerator_add_sample(g, Head(samples)), Tail(samples))

RECURSIVE PathSetGenerator_add_paths(_, _)
PathSetGenerator_add_paths(g, paths) ==
    IF paths = <<>> THEN g
    ELSE LET components == PathComponents(Head(paths))
             g1 == [g EXCEPT
                      !.component_counts = CounterAdd(@, Len(components)),
                      !.component_generator =
                          StringGenerator_add_samples(@, components)]
         IN PathSetGenerator_add_paths(g1, Tail(paths))

PathSetGenerator_add_sample(g, sample) ==
    PathSetGenerator_add_paths(
        [g EXCEPT !.lengths = CounterAdd(@, Len(sample))], sample)

IsBuildTargetRef(source_path) ==
    StartsWith(source_path, <<"/", "/">>) \/ StartsWith(source_path, <<":">>)

RECURSIVE SourcePathSetGenerator_add_sources(_, _, _)
SourcePathSetGenerator_add_sources(g, base_path, sample) ==
    IF sample = <<>> THEN g
    ELSE LET source_path == Head(sample)
             g1 == IF IsBuildTargetRef(source_path)
                   THEN [g EXCEPT
                           !.build_target_values = CounterAdd(@, TRUE),
                           !.build_target_set_generator =
                               BuildTargetSetGenerator_add_sample(
                                   @, base_path, <<source_path>>)]
                   ELSE [g EXCEPT
                           !.build_target_values = CounterAdd(@, FALSE),
                           !.path_set_generator =
                               PathSetGenerator_add_sample(@, <<source_path>>)]
         IN SourcePathSetGenerator_add_sources(g1, base_path, Tail(sample))

SourcePathSetGenerator_add_sample(g, base_path, sample) ==
    SourcePathSetGenerator_add_sources(
        [g EXCEPT !.lengths = CounterAdd(@, Len(sample))], base_path, sample)

\* an entry of a sources-with-flags sample: a str (is_list FALSE) or the
\* list [source, flags]
Source(source) == [is_list |-> FALSE, source |-> source, flags |-> <<>>]
SourceWithFlags(source, flags) ==
    [is_list |-> TRUE, source |-> source, flags |-> flags]

RECURSIVE SourcesWithFlagsGenerator_add_flag_lists(_, _)
SourcesWithFlagsGenerator_add_flag_lists(g, flag_lists) ==
    IF flag_lists = <<>> THEN g
    ELSE LET flags == Head(flag_lists)
             g1 == [g EXCEPT
                      !.flag_counts = CounterAdd(@, Len(flags)),
                      !.flag_generator = StringGenerator_add_samples(@, flags)]
         IN SourcesWithFlagsGenerator_add_flag_lists(g1, Tail(flag_lists))

SourcesWithFlagsGenerator_add_sample(g, base_path, sample) ==
    LET source_paths == [i \in 1..Len(sample) |-> sample[i].source]
        flag_lists == [i \in 1..Len(sample) |->
                          IF sample[i].is_list THEN sample[i].flags ELSE <<>>]
        g1 == [g EXCEPT !.source_path_set_generator =
                  SourcePathSetGenerator_add_sample(@, base_path, source_paths)]
    IN SourcesWithFlagsGenerator_add_flag_lists(g1, flag_lists)

\* a sample that is None, as NullableGenerator.add_sample tests it
NoneSample == [is_none |-> TRUE]
Some(sample) == [is_none |-> FALSE, sample |-> sample]

\* generator.add_sample(base_path, sample), by the class of the generator
RECURSIVE add_sample(_, _, _)
add_sample(g, base_path, sample) ==
    CASE g.cls = "String" -> StringGenerator_add_sample(g, sample)
      [] g.cls = "BuildTargetSet" ->
            BuildTargetSetGenerator_add_sample(g, base_path, sample)
      [] g.cls = "PathSet" -> PathSetGenerator_add_sample(g, sample)
      [] g.cls = "SourcePathSet" ->
            SourcePathSetGenerator_add_sample(g, base_path, sample)
      [] g.cls = "SourcesWithFlags" ->
            SourcesWithFlagsGenerator_add_sample(g, base_path, sample)
      [] g.cls = "Singleton" ->
            [g EXCEPT !.set_generator = add_sample(@, base_path, <<sample>>)]
      [] g.cls = "Nullable" ->
            IF sample.is_none
            THEN [g EXCEPT !.null_values = CounterAdd(@, TRUE)]
            ELSE [g EXCEPT !.null_values = CounterAdd(@, FALSE),
                           !.value_generator =
                               add_sample(@, base_path, sample.sample)]

(***************************************************************************)
(* generate.  Every generate operator gives the set of the outcomes the   *)
(* call can have, one for each way the random draws can fall:              *)
(*   status  "ok", or the exception the call raises                        *)
(*   none    the returned value is None                                    *)
(*   value, deps   the GeneratedField returned                             *)
(*   gen     the generator after the call                                  *)
(*   tree    the filesystem after the call                                 *)
(*   calls   the calls made on nested generators and the types drawn into  *)
(*           type_counts, in order (a record of what happened, not program *)
(*           state)                                                        *)
(***************************************************************************)
None == -1

OK == "ok"
GenerationFailedException == "GenerationFailedException"
EmptyTableError == "weighted_choice on an empty table"

Outcome(status, value, deps, g, tree, calls) ==
    [status |-> status, none |-> FALSE, value |-> value, deps |-> deps,
     gen |-> g, tree |-> tree, calls |-> calls]

Raise(status, g, tree, calls) == Outcome(status, <<>>, <<>>, g, tree, calls)

\* count: the force_length of the call (None if not given); for the private
\* helpers, the count the helper drew
Call(name, count, out) ==
    [cls |-> name, count |-> count, status |-> out.status,
     none |-> out.none, value |-> out.value, deps |-> out.deps]

\* ---- StringGenerator.generate ----
\* the loop with "<=" for "<": one character too many
RECURSIVE StringLoop_OneMore(_, _, _)
StringLoop_OneMore(g, output, length) ==
    IF Len(output) > length THEN {[status |-> OK, value |-> output]}
    ELSE IF IsEmptyTable(g.other_chars)
    THEN {[status |-> EmptyTableError, value |-> <<>>]}
    ELSE UNION {StringLoop_OneMore(g, Append(output, ch), length) :
                    ch \in weighted_choice(g.other_chars)}

RECURSIVE StringLoop(_, _, _)
StringLoop(g, output, length) ==
    IF Len(output) >= length THEN {[status |-> OK, value |-> output]}
    ELSE IF IsEmptyTable(g.other_chars)
    THEN {[status |-> EmptyTableError, value |-> <<>>]}
    ELSE UNION {StringLoop(g, Append(output, ch), length) :
                    ch \in weighted_choice(g.other_chars)}

\* the first character drawn from the table of the later characters
StringDraws_FirstFromOther(g) ==
    IF IsEmptyTable(g.lengths)
    THEN {[status |-> EmptyTableError, value |-> <<>>]}
    ELSE UNION {
        IF length > 0
        THEN IF IsEmptyTable(g.other_chars)
             THEN {[status |-> EmptyTableError, value |-> <<>>]}
             ELSE UNION {StringLoop(g, <<ch>>, length) :
                             ch \in weighted_choice(g.other_chars)}
        ELSE StringLoop(g, <<>>, length)
        : length \in weighted_choice(g.lengths)}

StringDraws(g) ==
    IF IsEmptyTable(g.lengths)
    THEN {[status |-> EmptyTableError, value |-> <<>>]}
    ELSE UNION {
        IF length > 0
        THEN IF IsEmptyTable(g.first_chars)
             THEN {[status |-> EmptyTableError, value |-> <<>>]}
             ELSE UNION {StringLoop(g, <<ch>>, length) :
                             ch \in weighted_choice(g.first_chars)}
        ELSE StringLoop(g, <<>>, length)
        : length \in weighted_choice(g.lengths)}

StringGenerator_generate(g, tree) ==
    {Outcome(r.status, r.value, <<>>, g, tree, <<>>) : r \in StringDraws(g)}

\* [generator.generate().value for i in range(n)]
RECURSIVE StringList(_, _)
StringList(g, n) ==
    IF n = 0 THEN {[status |-> OK, value |-> <<>>]}
    ELSE UNION {
        IF r.status # OK THEN {[status |-> r.status, value |-> <<>>]}
        ELSE {IF rest.status # OK THEN rest
              ELSE [status |-> OK, value |-> <<r.value>> \o rest.value] :
                  rest \in StringList(g, n - 1)}
        : r \in StringDraws(g)}

\* ---- BuildTargetSetGenerator.generate ----
\* the keys of a Counter fed the draws in order: first occurrences
RECURSIVE KeysInOrder(_)
KeysInOrder(draws) ==
    IF draws = <<>> THEN <<>>
    ELSE LET rest == KeysInOrder(SubSeq(draws, 1, Len(draws) - 1))
             last_draw == draws[Len(draws)]
         IN IF \E i \in 1..Len(rest) : rest[i] = last_draw THEN rest
            ELSE Append(rest, last_draw)

CountOf(draws, key) == Cardinality({i \in 1..Len(draws) : draws[i] = key})

\* sampling with replacement, as random.choices does
random_sample_WithReplacement(options, count) ==
    {[i \in 1..count |-> options[f[i]]] :
        f \in [1..count -> 1..Len(options)]}

\* random.sample(options, count): count elements at distinct positions
random_sample(options, count) ==
    {[i \in 1..count |-> options[f[i]]] :
        f \in {h \in [1..count -> 1..Len(options)] :
                  \A i, j \in 1..count : i # j => h[i] # h[j]}}

\* the loop over type_counts.items() failing already when a count equals
\* the number of the options
RECURSIVE BuildTargetOutputs_AtLeast(_, _, _)
BuildTargetOutputs_AtLeast(types, draws, targets) ==
    IF types = <<>> THEN {[status |-> OK, value |-> <<>>]}
    ELSE LET options == targets[Head(types)]
             count == CountOf(draws, Head(types))
         IN IF count >= Len(options)
            THEN {[status |-> GenerationFailedException, value |-> <<>>]}
            ELSE UNION {
                {IF rest.status # OK THEN rest
                 ELSE [status |-> OK, value |-> picked \o rest.value] :
                     rest \in BuildTargetOutputs_AtLeast(Tail(types), draws,
                                                         targets)}
                : picked \in random_sample(options, count)}

\* the types drawn into type_counts, in the order of the draws, as an entry
\* of the record of calls
TypeCounts(length, draws) ==
    [cls |-> "type_counts", count |-> length, status |-> OK, none |-> FALSE,
     value |-> draws, deps |-> <<>>]

\* the loop over type_counts.items()
RECURSIVE BuildTargetOutputs(_, _, _)
BuildTargetOutputs(types, draws, targets) ==
    IF types = <<>> THEN {[status |-> OK, value |-> <<>>]}
    ELSE LET options == targets[Head(types)]
             count == CountOf(draws, Head(types))
         IN IF count > Len(options)
            THEN {[status |-> GenerationFailedException, value |-> <<>>]}
            ELSE UNION {
                {IF rest.status # OK THEN rest
                 ELSE [status |-> OK, value |-> picked \o rest.value] :
                     rest \in BuildTargetOutputs(Tail(types), draws, targets)}
                : picked \in random_sample(options, count)}

BuildTargetSetGenerator_generate(g, ctx, force_length) ==
    IF force_length = None /\ IsEmptyTable(g.lengths)
    THEN {Raise(EmptyTableError, g, ctx.tree, <<>>)}
    ELSE UNION {
        IF length > 0 /\ IsEmptyTable(g.types)
        THEN {Raise(EmptyTableError, g, ctx.tree, <<>>)}
        ELSE UNION {
            {Outcome(r.status, r.value, r.value, g, ctx.tree,
                     <<TypeCounts(length, draws)>>) :
                r \in BuildTargetOutputs(KeysInOrder(draws), draws,
                                         ctx.targets)}
            : draws \in [1..length -> weighted_choice(g.types)]}
        : length \in IF force_length # None THEN {force_length}
                     ELSE weighted_choice(g.lengths)}

\* ---- PathSetGenerator._generate_path ----
FullPath(path) == os_path_join(<<output_repository, path>>)

\* a probe that never finds the path
PathProbe_Never(tree, full_path) == FALSE

\* os.path.exists(full_path)
PathProbe(tree, full_path) == os_path_exists(tree, full_path)

\* an except clause for NotADirectoryError only
ExceptMakedirs_NotADirectoryOnly(made) ==
    IF made.err = "NotADirectoryError"
    THEN [err |-> GenerationFailedException, tree |-> made.tree]
    ELSE made

\* except (NotADirectoryError, FileExistsError): raise
\* GenerationFailedException()
ExceptMakedirs(made) ==
    IF made.err \in {"NotADirectoryError", "FileExistsError"}
    THEN [err |-> GenerationFailedException, tree |-> made.tree]
    ELSE made

\* os.makedirs(os.path.dirname(full_path), exist_ok=True) in its try block:
\* [err, tree], err the exception that leaves the block
PathMakedirs(tree, full_path) ==
    ExceptMakedirs(os_makedirs(tree, os_path_dirname(full_path)))

\* with open(full_path, 'w'): pass
PathOpen(tree, full_path) == open_w(tree, full_path)

\* the end of _generate_path: [status, path, tree, count]
ReserveOpened(path, component_count, made, opened) ==
    IF made.err # "ok"
    THEN [status |-> made.err, path |-> path, tree |-> made.tree,
          count |-> component_count]
    ELSE [status |-> opened.err, path |-> path, tree |-> opened.tree,
          count |-> component_count]

\* _generate_path from open on, os.makedirs having ended as made
ReserveMade(path, component_count, full_path, made) ==
    ReserveOpened(path, component_count, made,
                  PathOpen(made.tree, full_path))

\* ReserveProbed without the test of os.path.exists
ReserveProbed_NoProbe(tree, path, component_count, full_path) ==
    ReserveMade(path, component_count, full_path,
                PathMakedirs(tree, full_path))

\* _generate_path from the test of os.path.exists on
ReserveProbed(tree, path, component_count, full_path) ==
    IF PathProbe(tree, full_path)
    THEN [status |-> GenerationFailedException, path |-> path,
          tree |-> tree, count |-> component_count]
    ELSE ReserveMade(path, component_count, full_path,
                     PathMakedirs(tree, full_path))

\* _generate_path from the joined path on
ReservePath(tree, path, component_count) ==
    ReserveProbed(tree, path, component_count, FullPath(path))

\* the draws of _generate_path up to the joined path: [status, path, count]
PathDraws(g) ==
    IF IsEmptyTable(g.component_counts)
    THEN {[status |-> EmptyTableError, path |-> <<>>, count |-> None]}
    ELSE UNION {
        {IF comps.status # OK
         THEN [status |-> comps.status, path |-> <<>>,
               count |-> component_count]
         ELSE IF comps.value = <<>>
         THEN [status |-> "TypeError", path |-> <<>>,
               count |-> component_count]
         ELSE [status |-> OK, path |-> os_path_join(comps.value),
               count |-> component_count] :
             comps \in StringList(g.component_generator, component_count)}
        : component_count \in weighted_choice(g.component_counts)}

PathSetGenerator_generate_path(g, tree) ==
    {IF d.status # OK
     THEN [status |-> d.status, path |-> d.path, tree |-> tree,
           count |-> d.count]
     ELSE ReservePath(tree, d.path, d.count) : d \in PathDraws(g)}

\* the list of paths with the filesystem put back as it was when a
\* _generate_path raises
RECURSIVE PathList_Rollback(_, _, _)
PathList_Rollback(g, tree, n) ==
    IF n = 0
    THEN {[status |-> OK, value |-> <<>>, tree |-> tree, calls |-> <<>>]}
    ELSE UNION {
        LET call == [cls |-> "_generate_path", count |-> p.count,
                     status |-> p.status, none |-> FALSE, value |-> p.path,
                     deps |-> <<>>]
        IN IF p.status # OK
           THEN {[status |-> p.status, value |-> <<>>, tree |-> tree,
                  calls |-> <<call>>]}
           ELSE {[status |-> rest.status,
                  value |-> IF rest.status = OK THEN <<p.path>> \o rest.value
                            ELSE <<>>,
                  tree |-> IF rest.status = OK THEN rest.tree ELSE tree,
                  calls |-> <<call>> \o rest.calls] :
                     rest \in PathList_Rollback(g, p.tree, n - 1)}
        : p \in PathSetGenerator_generate_path(g, tree)}

\* [self._generate_path() for i in range(n)]: [status, value, tree, calls]
RECURSIVE PathList(_, _, _)
PathList(g, tree, n) ==
    IF n = 0
    THEN {[status |-> OK, value |-> <<>>, tree |-> tree, calls |-> <<>>]}
    ELSE UNION {
        LET call == [cls |-> "_generate_path", count |-> p.count,
                     status |-> p.status, none |-> FALSE, value |-> p.path,
                     deps |-> <<>>]
        IN IF p.status # OK
           THEN {[status |-> p.status, value |-> <<>>, tree |-> p.tree,
                  calls |-> <<call>>]}
           ELSE {[status |-> rest.status,
                  value |-> IF rest.status = OK THEN <<p.path>> \o rest.value
                            ELSE <<>>,
                  tree |-> rest.tree, calls |-> <<call>> \o rest.calls] :
                     rest \in PathList(g, p.tree, n - 1)}
        : p \in PathSetGenerator_generate_path(g, tree)}

\* a generate that returns the paths as deps too
PathSetGenerator_generate_PathsAsDeps(g, ctx, force_length) ==
    IF force_length = None /\ IsEmptyTable(g.lengths)
    THEN {Raise(EmptyTableError, g, ctx.tree, <<>>)}
    ELSE UNION {
        {Outcome(r.status, r.value, r.value, g, r.tree, r.calls) :
            r \in PathList(g, ctx.tree, length)}
        : length \in IF force_length # None THEN {force_length}
                     ELSE weighted_choice(g.lengths)}

PathSetGenerator_generate(g, ctx, force_length) ==
    IF force_length = None /\ IsEmptyTable(g.lengths)
    THEN {Raise(EmptyTableError, g, ctx.tree, <<>>)}
    ELSE UNION {
        {Outcome(r.status, r.value, <<>>, g, r.tree, r.calls) :
            r \in PathList(g, ctx.tree, length)}
        : length \in IF force_length # None THEN {force_length}
                     ELSE weighted_choice(g.lengths)}

\* ---- SourcePathSetGenerator.generate ----
\* the two calls with GenerationFailedException caught: what was generated
\* so far is returned
SourcePathSetParts_Catching(g, ctx, build_target_count, path_count) ==
    UNION {
        LET g1 == [g EXCEPT !.build_target_set_generator = build_targets.gen]
            c1 == build_targets.calls
                     \o <<Call("BuildTargetSet", build_target_count,
                              build_targets)>>
        IN {LET g2 == [g1 EXCEPT !.path_set_generator = paths.gen]
                c2 == c1 \o paths.calls
                         \o <<Call("PathSet", path_count, paths)>>
            IN Outcome(OK, build_targets.value \o paths.value,
                       build_targets.deps \o paths.deps, g2, paths.tree, c2)
            : paths \in PathSetGenerator_generate(
                  g1.path_set_generator,
                  [ctx EXCEPT !.tree = build_targets.tree], path_count)}
        : build_targets \in BuildTargetSetGenerator_generate(
              g.build_target_set_generator, ctx, build_target_count)}

\* the two calls in the other order: the paths are generated first
SourcePathSetParts_PathsFirst(g, ctx, build_target_count, path_count) ==
    UNION {
        LET g1 == [g EXCEPT !.path_set_generator = paths.gen]
            c1 == paths.calls \o <<Call("PathSet", path_count, paths)>>
        IN IF paths.status # OK
           THEN {Raise(paths.status, g1, paths.tree, c1)}
           ELSE {
               LET g2 == [g1 EXCEPT
                             !.build_target_set_generator = build_targets.gen]
                   c2 == c1 \o build_targets.calls
                            \o <<Call("BuildTargetSet", build_target_count,
                                     build_targets)>>
               IN IF build_targets.status # OK
                  THEN Raise(build_targets.status, g2, paths.tree, c2)
                  ELSE Outcome(OK, build_targets.value \o paths.value,
                               build_targets.deps \o paths.deps,
                               g2, paths.tree, c2)
               : build_targets \in BuildTargetSetGenerator_generate(
                     g1.build_target_set_generator,
                     [ctx EXCEPT !.tree = paths.tree], build_target_count)}
        : paths \in PathSetGenerator_generate(
              g.path_set_generator, ctx, path_count)}

\* from the two calls on the nested generators to the return
SourcePathSetParts(g, ctx, build_target_count, path_count) ==
    UNION {
        LET g1 == [g EXCEPT !.build_target_set_generator = build_targets.gen]
            c1 == build_targets.calls
                     \o <<Call("BuildTargetSet", build_target_count,
                              build_targets)>>
        IN IF build_targets.status # OK
           THEN {Raise(build_targets.status, g1, build_targets.tree, c1)}
           ELSE {
               LET g2 == [g1 EXCEPT !.path_set_generator = paths.gen]
                   c2 == c1 \o paths.calls
                            \o <<Call("PathSet", path_count, paths)>>
               IN IF paths.status # OK
                  THEN Raise(paths.status, g2, paths.tree, c2)
                  ELSE IF Len(build_targets.value) # build_target_count
                  THEN Raise("AssertionError", g2, paths.tree, c2)
                  ELSE IF Len(paths.value) # path_count
                  THEN Raise("AssertionError", g2, paths.tree, c2)
                  ELSE Outcome(OK, build_targets.value \o paths.value,
                               build_targets.deps \o paths.deps,
                               g2, paths.tree, c2)
               : paths \in PathSetGenerator_generate(
                     g1.path_set_generator,
                     [ctx EXCEPT !.tree = build_targets.tree], path_count)}
        : build_targets \in BuildTargetSetGenerator_generate(
              g.build_target_set_generator, ctx, build_target_count)}

SourcePathSetGenerator_generate(g, ctx) ==
    IF IsEmptyTable(g.lengths) THEN {Raise(EmptyTableError, g, ctx.tree, <<>>)}
    ELSE UNION {
        IF length > 0 /\ IsEmptyTable(g.build_target_values)
        THEN {Raise(EmptyTableError, g, ctx.tree, <<>>)}
        ELSE UNION {
            SourcePathSetParts(g, ctx, CountOf(draws, TRUE),
                               CountOf(draws, FALSE))
            : draws \in [1..length -> weighted_choice(g.build_target_values)]}
        : length \in weighted_choice(g.lengths)}

\* ---- SourcesWithFlagsGenerator.generate ----
\* _generate_source_with_flags returning the list [source_path, flags] also
\* when the flag count drawn is 0
GenerateSourceWithFlags_AlwaysPair(g, source_path) ==
    IF IsEmptyTable(g.flag_counts)
    THEN {[status |-> EmptyTableError, value |-> Source(source_path),
           count |-> None]}
    ELSE UNION {
        {[status |-> flags.status,
          value |-> SourceWithFlags(source_path, flags.value),
          count |-> flag_count] :
            flags \in StringList(g.flag_generator, flag_count)}
        : flag_count \in weighted_choice(g.flag_counts)}

\* _generate_source_with_flags(source_path): [status, value, count]
SourcesWithFlagsGenerator_generate_source_with_flags(g, source_path) ==
    IF IsEmptyTable(g.flag_counts)
    THEN {[status |-> EmptyTableError, value |-> Source(source_path),
           count |-> None]}
    ELSE UNION {
        IF flag_count = 0
        THEN {[status |-> OK, value |-> Source(source_path),
               count |-> flag_count]}
        ELSE {[status |-> flags.status,
               value |-> SourceWithFlags(source_path, flags.value),
               count |-> flag_count] :
                 flags \in StringList(g.flag_generator, flag_count)}
        : flag_count \in weighted_choice(g.flag_counts)}

\* [self._generate_source_with_flags(sp) for sp in source_paths]
RECURSIVE SourcesWithFlagsList(_, _)
SourcesWithFlagsList(g, source_paths) ==
    IF source_paths = <<>>
    THEN {[status |-> OK, value |-> <<>>, calls |-> <<>>]}
    ELSE UNION {
        LET call == [cls |-> "_generate_source_with_flags",
                     count |-> e.count, status |-> e.status, none |-> FALSE,
                     value |-> e.value, deps |-> <<>>]
        IN IF e.status # OK
           THEN {[status |-> e.status, value |-> <<>>, calls |-> <<call>>]}
           ELSE {[status |-> rest.status,
                  value |-> IF rest.status = OK THEN <<e.value>> \o rest.value
                            ELSE <<>>,
                  calls |-> <<call>> \o rest.calls] :
                     rest \in SourcesWithFlagsList(g, Tail(source_paths))}
        : e \in SourcesWithFlagsGenerator_generate_source_with_flags(
                    g, Head(source_paths))}

\* the flags of the generated entries, one after the other
RECURSIVE FlagsOfEntries(_)
FlagsOfEntries(entries) ==
    IF entries = <<>> THEN <<>>
    ELSE Head(entries).flags \o FlagsOfEntries(Tail(entries))

\* a generate that returns the generated flags as deps too
SourcesWithFlagsGenerator_generate_FlagsAsDeps(g, ctx) ==
    UNION {
        LET g1 == [g EXCEPT !.source_path_set_generator = source_paths.gen]
            c1 == source_paths.calls
                     \o <<Call("SourcePathSet", None, source_paths)>>
        IN IF source_paths.status # OK
           THEN {Raise(source_paths.status, g1, source_paths.tree, c1)}
           ELSE {Outcome(output.status, output.value,
                         IF output.status = OK
                         THEN source_paths.deps \o FlagsOfEntries(output.value)
                         ELSE <<>>,
                         g1, source_paths.tree, c1 \o output.calls) :
                    output \in SourcesWithFlagsList(g1, source_paths.value)}
        : source_paths \in SourcePathSetGenerator_generate(
              g.source_path_set_generator, ctx)}

SourcesWithFlagsGenerator_generate(g, ctx) ==
    UNION {
        LET g1 == [g EXCEPT !.source_path_set_generator = source_paths.gen]
            c1 == source_paths.calls
                     \o <<Call("SourcePathSet", None, source_paths)>>
        IN IF source_paths.status # OK
           THEN {Raise(source_paths.status, g1, source_paths.tree, c1)}
           ELSE {Outcome(output.status, output.value,
                         IF output.status = OK THEN source_paths.deps
                         ELSE <<>>,
                         g1, source_paths.tree, c1 \o output.calls) :
                    output \in SourcesWithFlagsList(g1, source_paths.value)}
        : source_paths \in SourcePathSetGenerator_generate(
              g.source_path_set_generator, ctx)}

\* ---- generator.generate(), by the class of the generator ----
RECURSIVE generate(_, _, _)

SingletonGenerator_generate(g, ctx) ==
    {LET g1 == [g EXCEPT !.set_generator = field.gen]
         c1 == field.calls \o <<Call(g.set_generator.cls, None, field)>>
     IN IF field.status # OK THEN Raise(field.status, g1, field.tree, c1)
        ELSE IF Len(field.value) # 1
        THEN Raise("AssertionError", g1, field.tree, c1)
        ELSE Outcome(OK, field.value[1], field.deps, g1, field.tree, c1)
     : field \in generate(g.set_generator, ctx, None)}

\* a generate that returns None or delegates whatever was learned
NullableGenerator_generate_AnyNull(g, ctx) ==
    UNION {
        IF is_null
        THEN {[Outcome(OK, <<>>, <<>>, g, ctx.tree, <<>>)
                  EXCEPT !.none = TRUE]}
        ELSE {[field EXCEPT
                  !.gen = [g EXCEPT !.value_generator = field.gen],
                  !.calls = @ \o <<Call(g.value_generator.cls, None, field)>>]
              : field \in generate(g.value_generator, ctx, None)}
        : is_null \in BOOLEAN}

NullableGenerator_generate(g, ctx) ==
    IF IsEmptyTable(g.null_values)
    THEN {Raise(EmptyTableError, g, ctx.tree, <<>>)}
    ELSE UNION {
        IF is_null
        THEN {[Outcome(OK, <<>>, <<>>, g, ctx.tree, <<>>)
                  EXCEPT !.none = TRUE]}
        ELSE {[field EXCEPT
                  !.gen = [g EXCEPT !.value_generator = field.gen],
                  !.calls = @ \o <<Call(g.value_generator.cls, None, field)>>]
              : field \in generate(g.value_generator, ctx, None)}
        : is_null \in weighted_choice(g.null_values)}

generate(g, ctx, force_length) ==
    CASE g.cls = "String" -> StringGenerator_generate(g, ctx.tree)
      [] g.cls = "BuildTargetSet" ->
            BuildTargetSetGenerator_generate(g, ctx, force_length)
      [] g.cls = "PathSet" -> PathSetGenerator_generate(g, ctx, force_length)
      [] g.cls = "SourcePathSet" -> SourcePathSetGenerator_generate(g, ctx)
      [] g.cls = "SourcesWithFlags" ->
            SourcesWithFlagsGenerator_generate(g, ctx)
      [] g.cls = "Singleton" -> SingletonGenerator_generate(g, ctx)
      [] g.cls = "Nullable" -> NullableGenerator_generate(g, ctx)

(***************************************************************************)
(* The driver: it constructs one generator, feeds it the samples of the    *)
(* input repository (learning), then calls generate, committing the        *)
(* targets it synthesizes to Context.gen_targets_by_type in between.       *)
(***************************************************************************)
VARIABLES
    generator,            \* the generator the driver constructed
    gen_targets_by_type,  \* Context.gen_targets_by_type
    filesystem,           \* the tree Context.output_repository lives in
    last,                 \* the last call of the driver and how it ended
    returned,             \* the paths PathSetGenerator.generate returned so far
    observed_lengths,     \* the lengths of the samples given to add_sample
    learned_samples,      \* the samples given to add_sample, as a bag
    nsamples,             \* add_sample calls made
    ngenerates,           \* generate calls made
    splitting,            \* a PathSetGenerator.add_sample taken step by step
    workers,              \* the workers that allocate paths side by side
    lock,                 \* the holder of the driver's lock on the output root
    created_by            \* <<node, worker>>: the worker's open made the file

driver_vars == <<generator, gen_targets_by_type, last, returned,
                 observed_lengths, learned_samples, nsamples, ngenerates,
                 splitting>>

worker_vars == <<workers, lock, created_by>>

vars == <<generator, gen_targets_by_type, filesystem, last, returned,
          observed_lengths, learned_samples, nsamples, ngenerates, splitting,
          workers, lock, created_by>>

base_path == <<"x">>

\* samples of the input repository
StringSamples ==
    {<<>>,
     <<"a">>,
     <<"a", "b">>,
     <<"a", "b", "c">>}

TargetSamples ==
    {<<":", "a">>,
     <<"/", "/", "x", ":", "a", "#", "f">>,
     <<"/", "/", "y", ":", "b">>}

TargetSetSamples ==
    {<<>>,
     <<<<":", "a">>>>,
     <<<<"/", "/", "y", ":", "b">>>>,
     <<<<"/", "/", "x", ":", "a", "#", "f">>, <<"/", "/", "y", ":", "b">>>>}

PathSamples ==
    {<<>>,
     <<"a">>,
     <<"a", "/", "b">>,
     <<"a", "/">>,
     <<".", "a", "/", "a", ".">>}

PathSetSamples ==
    {<<>>,
     <<<<"a">>>>,
     <<<<"a">>, <<"a", "/", "b">>>>,
     <<<<"a", "/">>>>,
     <<<<>>>>}

SourcePathSamples ==
    {<<":", "a">>,
     <<"/", "/", "y", ":", "b">>,
     <<"a">>,
     <<"a", "/", "b">>}

SourcePathSetSamples ==
    {<<>>,
     <<<<"a">>>>,
     <<<<":", "a">>, <<"a", "/", "a">>>>,
     <<<<"a", "/">>>>}

SourcesWithFlagsSamples ==
    {<<>>,
     <<Source(<<"a">>)>>,
     <<Source(<<"a">>), SourceWithFlags(<<":", "a">>, <<<<"-", "x">>>>)>>,
     <<SourceWithFlags(<<"a", "/">>, <<>>)>>}

RECURSIVE SamplesOf(_)
SamplesOf(g) ==
    CASE g.cls = "String" -> StringSamples
      [] g.cls = "BuildTargetSet" -> TargetSetSamples
      [] g.cls = "PathSet" -> PathSetSamples
      [] g.cls = "SourcePathSet" -> SourcePathSetSamples
      [] g.cls = "SourcesWithFlags" -> SourcesWithFlagsSamples
      [] g.cls = "Singleton" ->
            (CASE g.set_generator.cls = "BuildTargetSet" -> TargetSamples
               [] g.set_generator.cls = "PathSet" -> PathSamples
               [] g.set_generator.cls = "SourcePathSet" -> SourcePathSamples)
      [] g.cls = "Nullable" ->
            {NoneSample} \cup {Some(x) : x \in SamplesOf(g.value_generator)}

\* the generators the driver constructs, one per run
Generators ==
    {StringGenerator, BuildTargetSetGenerator, PathSetGenerator,
     SourcePathSetGenerator, SourcesWithFlagsGenerator,
     SingletonGenerator(BuildTargetSetGenerator),
     SingletonGenerator(PathSetGenerator),
     SingletonGenerator(SourcePathSetGenerator),
     NullableGenerator(StringGenerator),
     NullableGenerator(BuildTargetSetGenerator)}

EmptyRepository == (<<>> :> "dir") @@ (OutputRoot :> "dir")

Context == [tree |-> filesystem, targets |-> gen_targets_by_type]

Committed ==
    Len(gen_targets_by_type["lib"]) + Len(gen_targets_by_type["bin"])

\* an exception other than GenerationFailedException ended the run
Aborted == last.status \notin {OK, GenerationFailedException}

Learning == ngenerates = 0 /\ Committed = 0

\* the paths the PathSetGenerator.generate calls of one driver call returned
PathsReturned(out) ==
    IF out.status = OK /\ generator.cls = "PathSet"
    THEN {out.value[i] : i \in 1..Len(out.value)}
    ELSE UNION {{out.calls[k].value[i] : i \in 1..Len(out.calls[k].value)} :
                   k \in {j \in 1..Len(out.calls) :
                             /\ out.calls[j].cls = "PathSet"
                             /\ out.calls[j].status = OK}}

\* no add_sample is under way (turn: the turns of the while loop taken for
\* the path, counted modulo 2)
NotSplitting ==
    [pc |-> "idle", sample |-> <<>>, paths |-> <<>>, path |-> <<>>,
     components |-> <<>>, turn |-> 0]

Workers == 1..NumWorkers

Free == 0

\* no worker runs
NoWorkers ==
    /\ workers = [w \in Workers |-> [pc |-> "none"]]
    /\ lock = Free
    /\ created_by = {}

Init ==
    /\ NoWorkers
    /\ generator \in Generators
    /\ gen_targets_by_type = [t \in TargetTypes |-> <<>>]
    /\ filesystem = EmptyRepository
    /\ last = [op |-> "init", count |-> None, status |-> OK, none |-> FALSE,
               value |-> <<>>, deps |-> <<>>, calls |-> <<>>]
    /\ returned = {}
    /\ observed_lengths = {}
    /\ learned_samples = EmptyBag
    /\ nsamples = 0
    /\ ngenerates = 0
    /\ splitting = NotSplitting

\* generator.add_sample(base_path, sample)
AddSample(cls) ==
    /\ generator.cls = cls
    /\ ~Aborted
    /\ Learning
    /\ nsamples < MaxSamples
    /\ \E sample \in SamplesOf(generator) :
          /\ generator' = add_sample(generator, base_path, sample)
          /\ observed_lengths' =
                 IF cls \in {"Singleton", "Nullable"} THEN observed_lengths
                 ELSE observed_lengths \cup {Len(sample)}
          /\ learned_samples' = learned_samples (+) SetToBag({sample})
    /\ nsamples' = nsamples + 1
    /\ last' = [op |-> "add_sample", count |-> None, status |-> OK,
                none |-> FALSE, value |-> <<>>, deps |-> <<>>, calls |-> <<>>]
    /\ UNCHANGED <<gen_targets_by_type, filesystem, returned, ngenerates,
                   splitting>>
    /\ UNCHANGED worker_vars

\* generator.generate() or generator.generate(force_length)
Generate(cls, force_lengths) ==
    /\ generator.cls = cls
    /\ ~Aborted
    /\ nsamples > 0
    /\ ngenerates < MaxGenerates
    /\ \E force_length \in force_lengths :
       \E out \in generate(generator, Context, force_length) :
          /\ generator' = out.gen
          /\ filesystem' = out.tree
          /\ last' = [op |-> "generate", count |-> force_length,
                      status |-> out.status, none |-> out.none,
                      value |-> out.value, deps |-> out.deps,
                      calls |-> out.calls]
          /\ returned' = returned \cup PathsReturned(out)
    /\ ngenerates' = ngenerates + 1
    /\ UNCHANGED <<gen_targets_by_type, observed_lengths, learned_samples,
                   nsamples, splitting>>
    /\ UNCHANGED worker_vars

ForceLengths == {None} \cup 0..MaxForceLength

String_add_sample == AddSample("String")
String_generate == Generate("String", {None})
Nullable_add_sample == AddSample("Nullable")
Nullable_generate == Generate("Nullable", {None})
Singleton_add_sample == AddSample("Singleton")
Singleton_generate == Generate("Singleton", {None})
BuildTargetSet_add_sample == AddSample("BuildTargetSet")
BuildTargetSet_generate == Generate("BuildTargetSet", ForceLengths)
PathSet_add_sample == AddSample("PathSet")
PathSet_generate == Generate("PathSet", ForceLengths)
SourcePathSet_add_sample == AddSample("SourcePathSet")
SourcePathSet_generate == Generate("SourcePathSet", {None})
SourcesWithFlags_add_sample == AddSample("SourcesWithFlags")
SourcesWithFlags_generate == Generate("SourcesWithFlags", {None})

\* the generator, or one nested in it, looks generated targets up
RECURSIVE ReadsTargets(_)
ReadsTargets(g) ==
    CASE g.cls \in {"BuildTargetSet", "SourcePathSet", "SourcesWithFlags"} ->
            TRUE
      [] g.cls = "Singleton" -> ReadsTargets(g.set_generator)
      [] g.cls = "Nullable" -> ReadsTargets(g.value_generator)
      [] OTHER -> FALSE

\* the driver commits a synthesized target of some type (a step that matters
\* to the generators that look targets up)
CommitTarget ==
    /\ ~Aborted
    /\ ReadsTargets(generator)
    /\ nsamples > 0
    /\ Committed < MaxCommits
    /\ \E type \in TargetTypes :
          gen_targets_by_type' =
              [gen_targets_by_type EXCEPT
                  ![type] = Append(@, GenLabel(Committed + 1))]
    /\ last' = [op |-> "commit", count |-> None, status |-> OK,
                none |-> FALSE, value |-> <<>>, deps |-> <<>>, calls |-> <<>>]
    /\ UNCHANGED <<generator, filesystem, returned, observed_lengths,
                   learned_samples, nsamples, ngenerates, splitting>>
    /\ UNCHANGED worker_vars

Next ==
    \/ String_add_sample
    \/ String_generate
    \/ Nullable_add_sample
    \/ Nullable_generate
    \/ Singleton_add_sample
    \/ Singleton_generate
    \/ BuildTargetSet_add_sample
    \/ BuildTargetSet_generate
    \/ PathSet_add_sample
    \/ PathSet_generate
    \/ SourcePathSet_add_sample
    \/ SourcePathSet_generate
    \/ SourcesWithFlags_add_sample
    \/ SourcesWithFlags_generate
    \/ CommitTarget

Spec == Init /\ [][Next]_vars

(***************************************************************************)
(* Workers that allocate paths under one output repository, each with a    *)
(* PathSetGenerator of its own.  A worker runs _generate_path one system   *)
(* call after the other; os.makedirs is taken as one step.                 *)
(***************************************************************************)

\* what the workers' generators learned before the workers start
WorkerSamples ==
    {<<<<"a">>>>,
     <<<<"a">>, <<"a", "/", "b">>>>}

WorkerGenerators ==
    {PathSetGenerator_add_sample(PathSetGenerator, sample) :
        sample \in WorkerSamples}

\* the driver itself generates nothing while the workers run
DriverIdle ==
    /\ generator = PathSetGenerator
    /\ gen_targets_by_type = [t \in TargetTypes |-> <<>>]
    /\ filesystem = EmptyRepository
    /\ last = [op |-> "init", count |-> None, status |-> OK, none |-> FALSE,
               value |-> <<>>, deps |-> <<>>, calls |-> <<>>]
    /\ returned = {}
    /\ observed_lengths = {}
    /\ learned_samples = EmptyBag
    /\ nsamples = 0
    /\ ngenerates = 0
    /\ splitting = NotSplitting

WorkersAt(pc) ==
    /\ workers \in [Workers -> {[pc |-> pc, gen |-> g, path |-> <<>>,
                                 status |-> OK, returned |-> {}, n |-> 0] :
                                    g \in WorkerGenerators}]
    /\ lock = Free
    /\ created_by = {}

\* where a worker goes when its _generate_path ends, by return or by raise
Finish(w) == IF lock = w THEN "release" ELSE "start"

\* lines 133-137: the draws and the joins, which touch nothing shared
Draw(w) ==
    /\ workers[w].pc = "start"
    /\ workers[w].status \in {OK, GenerationFailedException}
    /\ workers[w].n < MaxAllocations
    /\ \E d \in PathDraws(workers[w].gen) :
          workers' = [workers EXCEPT
                         ![w].pc = IF d.status = OK THEN "probe"
                                   ELSE Finish(w),
                         ![w].path = d.path,
                         ![w].status = d.status,
                         ![w].n = @ + 1]
    /\ UNCHANGED <<filesystem, lock, created_by>>
    /\ UNCHANGED driver_vars

\* lines 138-139 with the path taken for absent whatever the tree holds
Probe_Blind(w) ==
    /\ workers[w].pc = "probe"
    /\ workers' = [workers EXCEPT ![w].pc = "makedirs"]
    /\ UNCHANGED <<filesystem, lock, created_by>>
    /\ UNCHANGED driver_vars

\* lines 138-139: if os.path.exists(full_path): raise
Probe(w) ==
    /\ workers[w].pc = "probe"
    /\ workers' =
          IF PathProbe(filesystem, FullPath(workers[w].path))
          THEN [workers EXCEPT ![w].pc = Finish(w),
                               ![w].status = GenerationFailedException]
          ELSE [workers EXCEPT ![w].pc = "makedirs"]
    /\ UNCHANGED <<filesystem, lock, created_by>>
    /\ UNCHANGED driver_vars

\* the worker after os.makedirs ended as made
MakedirsDone(w, made) ==
    /\ filesystem' = made.tree
    /\ workers' =
          IF made.err = "ok"
          THEN [workers EXCEPT ![w].pc = "open"]
          ELSE [workers EXCEPT ![w].pc = Finish(w),
                               ![w].status = made.err]

\* lines 140-143: os.makedirs in its try block
Makedirs(w) ==
    /\ workers[w].pc = "makedirs"
    /\ MakedirsDone(w, PathMakedirs(filesystem, FullPath(workers[w].path)))
    /\ UNCHANGED <<lock, created_by>>
    /\ UNCHANGED driver_vars

\* the worker after open ended as opened; the file is the worker's creation
\* if the path did not exist
OpenDone(w, created, opened) ==
    /\ filesystem' = opened.tree
    /\ workers' =
          IF opened.err = "ok"
          THEN [workers EXCEPT
                   ![w].pc = Finish(w),
                   ![w].status = OK,
                   ![w].returned = @ \cup {workers[w].path}]
          ELSE [workers EXCEPT ![w].pc = Finish(w),
                               ![w].status = opened.err]
    /\ created_by' =
          IF opened.err = "ok" /\ created
          THEN created_by \cup
                   {<<Stat(opened.tree, FullPath(workers[w].path)).node, w>>}
          ELSE created_by

\* lines 144-146: open(full_path, 'w') and the return of the path
Open(w) ==
    /\ workers[w].pc = "open"
    /\ OpenDone(w, ~os_path_exists(filesystem, FullPath(workers[w].path)),
                PathOpen(filesystem, FullPath(workers[w].path)))
    /\ UNCHANGED lock
    /\ UNCHANGED driver_vars

RaceInit == DriverIdle /\ WorkersAt("start")

RaceNext ==
    \E w \in Workers : Draw(w) \/ Probe(w) \/ Makedirs(w) \/ Open(w)

\* the workers run _generate_path with nothing between them
RaceSpec == RaceInit /\ [][RaceNext]_vars

\* the driver's lock on the output root, taken before a worker's
\* _generate_path and given back when it ends
Acquire(w) ==
    /\ workers[w].pc = "idle"
    /\ workers[w].n < MaxAllocations
    /\ lock = Free
    /\ lock' = w
    /\ workers' = [workers EXCEPT ![w].pc = "start"]
    /\ UNCHANGED <<filesystem, created_by>>
    /\ UNCHANGED driver_vars

Release(w) ==
    /\ workers[w].pc = "release"
    /\ lock = w
    /\ lock' = Free
    /\ workers' = [workers EXCEPT ![w].pc = "idle"]
    /\ UNCHANGED <<filesystem, created_by>>
    /\ UNCHANGED driver_vars

LockedInit == DriverIdle /\ WorkersAt("idle")

LockedNext ==
    \E w \in Workers :
        \/ Acquire(w)
        \/ Draw(w)
        \/ Probe(w)
        \/ Makedirs(w)
        \/ Open(w)
        \/ Release(w)

\* the workers run _generate_path under the driver's lock
LockedSpec == LockedInit /\ [][LockedNext]_vars

(***************************************************************************)
(* PathSetGenerator.add_sample taken one statement at a time, on samples   *)
(* that hold absolute paths as well.  The list of the components grows     *)
(* with every turn of the while loop; the model keeps its first            *)
(* MaxComponents entries and the parity of the number of the turns.        *)
(***************************************************************************)
SplitSamples ==
    {<<>>,
     <<<<"a", "/", "b">>>>,
     <<<<"a">>, <<"a", "/", "b", "/", "c">>>>,
     <<<<"a", "/">>, <<>>>>,
     <<<<"/", "a">>>>,
     <<<<"a">>, <<"/">>>>}

\* lines 113-114: the call and the update of the length table
Split_add_sample ==
    /\ splitting.pc = "idle"
    /\ nsamples < MaxSamples
    /\ \E sample \in SplitSamples :
          /\ generator' =
                 [generator EXCEPT !.lengths = CounterAdd(@, Len(sample))]
          /\ splitting' = [NotSplitting EXCEPT !.pc = "for",
                                               !.sample = sample,
                                               !.paths = sample]
          /\ observed_lengths' = observed_lengths \cup {Len(sample)}
          /\ learned_samples' = learned_samples (+) SetToBag({sample})
    /\ UNCHANGED <<gen_targets_by_type, filesystem, last, returned, nsamples,
                   ngenerates>>
    /\ UNCHANGED worker_vars

\* lines 115-116: the next path of the sample, or the return
Split_for ==
    /\ splitting.pc = "for"
    /\ IF splitting.paths = <<>>
       THEN /\ splitting' = NotSplitting
            /\ nsamples' = nsamples + 1
       ELSE /\ splitting' = [splitting EXCEPT
                                !.pc = "while",
                                !.path = Head(splitting.paths),
                                !.paths = Tail(splitting.paths),
                                !.components = <<>>,
                                !.turn = 0]
            /\ nsamples' = nsamples
    /\ UNCHANGED <<generator, gen_targets_by_type, filesystem, last, returned,
                   observed_lengths, learned_samples, ngenerates>>
    /\ UNCHANGED worker_vars

\* the path and the components after path, component = os.path.split(path)
\* and components.append(component)
SplitTurn(frame, s) ==
    [frame EXCEPT
        !.path = s[1],
        !.components = IF Len(@) < MaxComponents THEN Append(@, s[2]) ELSE @,
        !.turn = 1 - @]

\* lines 117-119: one turn of "while path"
Split_while ==
    /\ splitting.pc = "while"
    /\ splitting.path # <<>>
    /\ splitting' = SplitTurn(splitting, os_path_split(splitting.path))
    /\ UNCHANGED <<generator, gen_targets_by_type, filesystem, last, returned,
                   observed_lengths, learned_samples, nsamples, ngenerates>>
    /\ UNCHANGED worker_vars

\* lines 120-122: the loop has ended; the count and the components are
\* learned
Split_record ==
    /\ splitting.pc = "while"
    /\ splitting.path = <<>>
    /\ generator' =
          [generator EXCEPT
              !.component_counts = CounterAdd(@, Len(splitting.components)),
              !.component_generator =
                  StringGenerator_add_samples(@, splitting.components)]
    /\ splitting' = [splitting EXCEPT !.pc = "for"]
    /\ UNCHANGED <<gen_targets_by_type, filesystem, last, returned,
                   observed_lengths, learned_samples, nsamples, ngenerates>>
    /\ UNCHANGED worker_vars

SplitInit == DriverIdle /\ NoWorkers

SplitNext ==
    \/ Split_add_sample
    \/ Split_for
    \/ Split_while
    \/ Split_record

\* add_sample runs on: a step that can be taken is taken
SplitSpec == SplitInit /\ [][SplitNext]_vars /\ WF_vars(SplitNext)

(***************************************************************************)
(* Properties                                                              *)
(***************************************************************************)
GenerateReturned == last.op = "generate"

\* the calls of class cls the last driver call made, the driver's own included
CallsOf(l, root_cls, cls) ==
    (IF root_cls = cls
     THEN {[status |-> l.status, value |-> l.value, deps |-> l.deps,
            count |-> l.count]}
     ELSE {})
    \cup {[status |-> l.calls[k].status, value |-> l.calls[k].value,
           deps |-> l.calls[k].deps, count |-> l.calls[k].count] :
             k \in {j \in 1..Len(l.calls) : l.calls[j].cls = cls}}

\* the path, taken from the output repository, names a zero-byte file
IsEmptyFile(tree, path) ==
    LET st == Stat(tree, FullPath(path))
    IN st.st = "ok" /\ tree[st.node] = "empty"

UnderRoot(node) == Len(node) > 1 /\ SubSeq(node, 1, 1) = OutputRoot

IsEmptyFileUnderRoot(tree, path) ==
    /\ IsEmptyFile(tree, path)
    /\ UnderRoot(Stat(tree, FullPath(path)).node)

Distinct(seq) == \A i, j \in 1..Len(seq) : i # j => seq[i] # seq[j]

\* C1: every path a PathSetGenerator.generate call returns did not exist
\* (joined to the output repository) before the call, is an empty file after it,
\* was returned by no earlier call and occurs once in the call's result; and
\* a _generate_path that draws a path already returned, or already reserved
\* earlier in the same call, raises GenerationFailedException.
C1_PathUniqueness ==
    [][ngenerates' = ngenerates + 1 =>
        /\ \A c \in CallsOf(last', generator.cls, "PathSet") :
              c.status = OK =>
                 /\ Distinct(c.value)
                 /\ \A i \in 1..Len(c.value) :
                       /\ ~os_path_exists(filesystem, FullPath(c.value[i]))
                       /\ IsEmptyFile(filesystem', c.value[i])
                       /\ c.value[i] \notin returned
        /\ \A k \in 1..Len(last'.calls) :
              LET c == last'.calls[k]
              IN (/\ c.cls = "_generate_path"
                  /\ c.status \notin {EmptyTableError, "TypeError"}
                  /\ \/ c.value \in returned
                     \/ \E j \in 1..(k - 1) :
                           /\ last'.calls[j].cls = "_generate_path"
                           /\ last'.calls[j].status = OK
                           /\ last'.calls[j].value = c.value)
                 => c.status = GenerationFailedException
      ]_vars

\* C1 witness: a second PathSetGenerator.generate call returned two more paths
\* after an earlier call had returned some
C1_Witness ==
    /\ generator.cls = "PathSet"
    /\ GenerateReturned
    /\ last.status = OK
    /\ Len(last.value) = 2
    /\ Cardinality(returned) >= 3

LabelsOf(targets) ==
    UNION {{targets[t][k] : k \in 1..Len(targets[t])} : t \in DOMAIN targets}

ExactlyNLabels(l, n, targets) ==
    \/ l.status = GenerationFailedException
    \/ /\ l.status = OK
       /\ Len(l.value) = n
       /\ Distinct(l.value)
       /\ \A i \in 1..Len(l.value) : l.value[i] \in LabelsOf(targets)

\* C2 as stated: on any trained generator, generate(force_length=N) returns
\* exactly N pairwise distinct labels of gen_targets_by_type or raises
\* GenerationFailedException.
C2_Original ==
    (/\ generator.cls = "BuildTargetSet"
     /\ GenerateReturned
     /\ last.count # None)
    => ExactlyNLabels(last, last.count, gen_targets_by_type)

\* C2: generate(force_length=N) returns exactly N pairwise distinct labels of
\* gen_targets_by_type or raises GenerationFailedException, unless N > 0 and
\* the generator has learned no target (its type table is empty): then, and
\* only then, the draw of a type fails as weighted_choice fails on an empty
\* table.
C2_BuildTargetExactness ==
    (/\ generator.cls = "BuildTargetSet"
     /\ GenerateReturned
     /\ last.count # None)
    => IF last.count > 0 /\ IsEmptyTable(generator.types)
       THEN last.status = EmptyTableError
       ELSE ExactlyNLabels(last, last.count, gen_targets_by_type)

\* C2 witness: generate(force_length=2) returned two labels
C2_Witness ==
    /\ generator.cls = "BuildTargetSet"
    /\ GenerateReturned
    /\ last.count = 2
    /\ last.status = OK
    /\ Len(last.value) = 2

\* C4: when a call on a nested generator raised GenerationFailedException
\* during generate of a SourcePathSetGenerator, SourcesWithFlagsGenerator,
\* NullableGenerator or SingletonGenerator, that generate ends with
\* GenerationFailedException and returns nothing.
C4_GenerationFailedPropagates ==
    (/\ GenerateReturned
     /\ generator.cls \in {"SourcePathSet", "SourcesWithFlags", "Nullable",
                           "Singleton"})
    => \A k \in 1..Len(last.calls) :
          last.calls[k].status = GenerationFailedException
          => /\ last.status = GenerationFailedException
             /\ last.value = <<>>
             /\ last.deps = <<>>
             /\ ~last.none

\* C4 witness: BuildTargetSetGenerator.generate failed inside
\* SourcesWithFlagsGenerator.generate
C4_Witness ==
    /\ generator.cls = "SourcesWithFlags"
    /\ GenerateReturned
    /\ \E k \in 1..Len(last.calls) :
          /\ last.calls[k].cls = "BuildTargetSet"
          /\ last.calls[k].status = GenerationFailedException

\* C5: a successful SourcePathSetGenerator.generate returns as deps exactly
\* the build target references among its values: the labels of the nested
\* BuildTargetSetGenerator in their order, and no path of the nested
\* PathSetGenerator.
C5_SourcePathDeps ==
    (/\ generator.cls = "SourcePathSet"
     /\ GenerateReturned
     /\ last.status = OK)
    => /\ last.deps = SelectSeq(last.value, IsBuildTargetRef)
       /\ \A b \in CallsOf(last, generator.cls, "BuildTargetSet") :
             last.deps = b.value
       /\ \A c \in CallsOf(last, generator.cls, "PathSet") :
             /\ last.value = last.deps \o c.value
             /\ \A i \in 1..Len(c.value) : \A j \in 1..Len(last.deps) :
                   last.deps[j] # c.value[i]

\* C5 witness: a returned set with a build target and a path
C5_Witness ==
    /\ generator.cls = "SourcePathSet"
    /\ GenerateReturned
    /\ last.status = OK
    /\ Len(last.deps) >= 1
    /\ Len(last.value) > Len(last.deps)

\* C6: the length of a value StringGenerator, BuildTargetSetGenerator,
\* PathSetGenerator (no force_length) or SourcePathSetGenerator generates is
\* the length of a sample add_sample was given.
C6_LengthFidelity ==
    (/\ GenerateReturned
     /\ last.status = OK
     /\ last.count = None
     /\ generator.cls \in {"String", "BuildTargetSet", "PathSet",
                           "SourcePathSet"})
    => Len(last.value) \in observed_lengths

\* C6 witness: a SourcePathSetGenerator generated two elements
C6_Witness ==
    /\ generator.cls = "SourcePathSet"
    /\ GenerateReturned
    /\ last.status = OK
    /\ Len(last.value) = 2

\* C7 as stated: generate of a SourcesWithFlagsGenerator that learned a
\* sample draws from no empty table, and fails only with
\* GenerationFailedException or one of the two assertions.
C7_OnlyDocumentedFailures ==
    (generator.cls = "SourcesWithFlags" /\ GenerateReturned)
    => last.status \in {OK, GenerationFailedException, "AssertionError"}

\* C7, first half: no weighted_choice on an empty table
C7_NoEmptyTableDraw ==
    (generator.cls = "SourcesWithFlags" /\ GenerateReturned)
    => /\ last.status # EmptyTableError
       /\ \A k \in 1..Len(last.calls) : last.calls[k].status # EmptyTableError

\* the nodes of the filesystem a step changed
ChangedNodes(before, after) ==
    {n \in DOMAIN after : n \notin DOMAIN before \/ after[n] # before[n]}
    \cup {n \in DOMAIN before : n \notin DOMAIN after}

\* C8 as stated: a generate call, whether it returns or raises, leaves every
\* table of the generator and of the generators nested in it, and
\* Context.gen_targets_by_type, as they were; it changes the filesystem only
\* under the output repository and only when PathSetGenerator._generate_path
\* ran.
C8_GenerateReadOnly ==
    [][ngenerates' = ngenerates + 1 =>
        /\ generator' = generator
        /\ gen_targets_by_type' = gen_targets_by_type
        /\ \A n \in ChangedNodes(filesystem, filesystem') : UnderRoot(n)
        /\ filesystem' # filesystem =>
              \E k \in 1..Len(last'.calls) :
                 last'.calls[k].cls = "_generate_path"
      ]_vars

\* C8, without the bound on where the filesystem changes: the tables and
\* Context.gen_targets_by_type stay as they were, and the filesystem changes
\* only when _generate_path ran
C8_TablesUnchanged ==
    [][ngenerates' = ngenerates + 1 =>
        /\ generator' = generator
        /\ gen_targets_by_type' = gen_targets_by_type
        /\ filesystem' # filesystem =>
              \E k \in 1..Len(last'.calls) :
                 last'.calls[k].cls = "_generate_path"
      ]_vars

\* C8 witness: a generate call has returned a path and the filesystem holds
\* a file that is not under the output repository
C8_Witness ==
    /\ GenerateReturned
    /\ last.status = OK
    /\ \E n \in DOMAIN filesystem : n # <<>> /\ n # OutputRoot /\ ~UnderRoot(n)

ReturnedByTwo ==
    \E w, v \in Workers :
        w # v /\ workers[w].returned \cap workers[v].returned # {}

\* C3 as stated: the probe and the creation of the file are one step, so in
\* no interleaving of two workers is a path returned by both.
C3_Original == ~ReturnedByTwo

\* C3: only a probe that comes after the other worker returned the path ends
\* the allocation: a worker that probes a path another worker has returned
\* raises GenerationFailedException and does not return the path.
C3_ProbeAfterReturnFails ==
    [][\A w \in Workers :
          (/\ workers[w].pc = "probe"
           /\ workers'[w].pc # "probe"
           /\ \E v \in Workers \ {w} :
                  workers[w].path \in workers[v].returned)
          => /\ workers'[w].status = GenerationFailedException
             /\ workers'[w].pc = "start"
             /\ workers'[w].returned = workers[w].returned
      ]_vars

\* C3 witness: a worker failed on a path that the other worker had returned
\* and that it has not returned itself
C3_Witness ==
    \E w, v \in Workers :
        /\ w # v
        /\ workers[w].pc = "start"
        /\ workers[w].status = GenerationFailedException
        /\ workers[w].path \in workers[v].returned
        /\ workers[w].path \notin workers[w].returned

C7_Witness ==
    /\ generator.cls = "SourcesWithFlags"
    /\ GenerateReturned
    /\ last.status = "IsADirectoryError"

\* C9 witness: generate of a SingletonGenerator around a PathSetGenerator
\* ended with an exception of _generate_path that is not
\* GenerationFailedException
C9_Witness ==
    /\ generator.cls = "Singleton"
    /\ generator.set_generator.cls = "PathSet"
    /\ GenerateReturned
    /\ last.status \in {"IsADirectoryError", "TypeError"}

\* C9 as stated: the set generator a SingletonGenerator wraps has learned
\* the length 1 only, and every generate raises GenerationFailedException or
\* returns the one element of the wrapped generator's value, with its deps.
C9_SingletonInvariant ==
    (generator.cls = "Singleton" /\ nsamples > 0)
    => /\ BagToSet(generator.set_generator.lengths) = {1}
       /\ GenerateReturned =>
             \/ last.status = GenerationFailedException
             \/ /\ last.status = OK
                /\ LET field == last.calls[Len(last.calls)]
                   IN /\ Len(field.value) = 1
                      /\ last.value = field.value[1]
                      /\ last.deps = field.deps

\* C9, without the claim about how generate may fail: the length table and
\* the assertion
C9_AssertionNeverFails ==
    (generator.cls = "Singleton" /\ nsamples > 0)
    => /\ BagToSet(generator.set_generator.lengths) = {1}
       /\ GenerateReturned => last.status # "AssertionError"

\* the positions in the calls of the last driver call of the calls of cls
CallsAt(l, cls) == {k \in 1..Len(l.calls) : l.calls[k].cls = cls}

\* C11: a successful SourcesWithFlagsGenerator.generate made exactly one
\* SourcePathSetGenerator.generate call and returns the deps of that call,
\* element for element, whatever flag counts were drawn for the entries.
C11_SourcesWithFlagsDeps ==
    (/\ generator.cls = "SourcesWithFlags"
     /\ GenerateReturned
     /\ last.status = OK)
    => /\ Cardinality(CallsAt(last, "SourcePathSet")) = 1
       /\ \A k \in CallsAt(last, "SourcePathSet") :
             /\ last.calls[k].status = OK
             /\ last.deps = last.calls[k].deps

\* C11 witness: a returned list with a dependency and an entry that carries
\* a flag
C11_Witness ==
    /\ generator.cls = "SourcesWithFlags"
    /\ GenerateReturned
    /\ last.status = OK
    /\ Len(last.deps) >= 1
    /\ \E k \in CallsAt(last, "_generate_source_with_flags") :
          /\ last.calls[k].count >= 1
          /\ Len(last.calls[k].value.flags) >= 1

\* the samples given to add_sample so far
Learned == BagToSet(learned_samples)

\* a StringGenerator trained on "ab", "a", "abc"
ScenarioA ==
    StringGenerator_add_samples(
        StringGenerator, <<<<"a", "b">>, <<"a">>, <<"a", "b", "c">>>>)

\* C12: generate of a StringGenerator that learned at least one sample
\* returns, with empty deps, a string whose length is the length of a sample;
\* its first character is the first character of a sample and each later
\* character stands at a later position of a sample; it is the empty string,
\* with no draw of a character, when the length drawn is 0.  Trained on "ab",
\* "a", "abc" every outcome has a length in 1..3 and the first character "a".
C12_StringAlphabet ==
    /\ (generator.cls = "String" /\ GenerateReturned)
       => /\ last.status = OK
          /\ last.deps = <<>>
          /\ \E s \in Learned : Len(last.value) = Len(s)
          /\ last.value # <<>> =>
                /\ \E s \in Learned : s # <<>> /\ last.value[1] = s[1]
                /\ \A i \in 2..Len(last.value) :
                      \E s \in Learned : \E j \in 2..Len(s) :
                          last.value[i] = s[j]
          /\ Learned = {<<>>} => last.value = <<>>
    /\ \A r \in StringDraws(ScenarioA) :
          /\ r.status = OK
          /\ Len(r.value) \in 1..3
          /\ r.value[1] = "a"

\* C12 witness: a generated string of three characters that is no sample
C12_Witness ==
    /\ generator.cls = "String"
    /\ GenerateReturned
    /\ last.status = OK
    /\ Len(last.value) = 3
    /\ last.value \notin Learned

\* the generator g after add_sample of every sample of the bag that is not
\* None
RECURSIVE FeedAll(_, _)
FeedAll(g, bag) ==
    IF BagToSet(bag) = {} THEN g
    ELSE LET x == CHOOSE y \in BagToSet(bag) : TRUE
         IN FeedAll(IF x.is_none THEN g
                    ELSE add_sample(g, base_path, x.sample),
                    bag (-) SetToBag({x}))

\* the generator of the class of g as its constructor leaves it
Fresh(g) ==
    IF g.cls = "String" THEN StringGenerator ELSE BuildTargetSetGenerator

\* C13: the generator a NullableGenerator wraps has learned exactly the
\* samples that were not None, and the null table counts the None samples at
\* True and the others at False; generate returns (None, []) only if a None
\* sample was learned, and calls the wrapped generator only if another sample
\* was learned, ending as that call ended: same value and deps, or same
\* exception.
C13_NullableAbsence ==
    generator.cls = "Nullable"
    => /\ generator.value_generator =
             FeedAll(Fresh(generator.value_generator), learned_samples)
       /\ CopiesIn(TRUE, generator.null_values)
             = CopiesIn(NoneSample, learned_samples)
       /\ CopiesIn(FALSE, generator.null_values)
             = BagCardinality(learned_samples)
                  - CopiesIn(NoneSample, learned_samples)
       /\ GenerateReturned =>
             /\ last.none \/ last.calls # <<>>
             /\ last.none =>
                   /\ last.status = OK
                   /\ last.value = <<>>
                   /\ last.deps = <<>>
                   /\ last.calls = <<>>
                   /\ NoneSample \in Learned
             /\ last.calls # <<>> =>
                   /\ \E x \in Learned : ~x.is_none
                   /\ ~last.none
                   /\ LET field == last.calls[Len(last.calls)]
                      IN /\ field.cls = generator.value_generator.cls
                         /\ last.status = field.status
                         /\ last.value = field.value
                         /\ last.deps = field.deps

\* C13 witness: a NullableGenerator that learned a None and a list of
\* targets returned the labels the wrapped generator generated
C13_Witness ==
    /\ generator.cls = "Nullable"
    /\ NoneSample \in Learned
    /\ GenerateReturned
    /\ last.status = OK
    /\ ~last.none
    /\ Len(last.deps) >= 1

\* the BuildTargetSetGenerator.generate calls of the last driver call, each
\* with the types it drew (drew: it came as far as its draws)
BuildTargetCalls(l, root_cls) ==
    (IF root_cls = "BuildTargetSet"
     THEN {[status |-> l.status, value |-> l.value, deps |-> l.deps,
            drew |-> l.calls # <<>>,
            draws |-> IF l.calls # <<>> THEN l.calls[1].value ELSE <<>>]}
     ELSE {})
    \cup {[status |-> l.calls[k].status, value |-> l.calls[k].value,
           deps |-> l.calls[k].deps,
           drew |-> IF k > 1 THEN l.calls[k - 1].cls = "type_counts"
                    ELSE FALSE,
           draws |-> IF k > 1 THEN l.calls[k - 1].value ELSE <<>>] :
             k \in CallsAt(l, "BuildTargetSet")}

\* some type was drawn more often than targets of the type are registered
Exceeds(draws, targets) ==
    \E type \in TargetTypes : CountOf(draws, type) > Len(targets[type])

\* what the claim says of one call, given the types it drew
FailsIffExceeds(c, targets) ==
    /\ c.status = IF Exceeds(c.draws, targets) THEN GenerationFailedException
                  ELSE OK
    /\ c.status # OK => c.value = <<>> /\ c.deps = <<>>

\* C14 as stated: every BuildTargetSetGenerator.generate call raises
\* GenerationFailedException if a type it drew has a tally above the number
\* of the labels registered for the type, returning nothing, and returns
\* otherwise.
C14_Original ==
    GenerateReturned
    => \A c \in BuildTargetCalls(last, generator.cls) :
          FailsIffExceeds(c, gen_targets_by_type)

\* C14: a BuildTargetSetGenerator.generate call that drew its types raises
\* GenerationFailedException, returning nothing, exactly if a type has a
\* tally above the number of the labels registered for it in
\* gen_targets_by_type, and returns otherwise; the one call that does not
\* come to its tallies is generate(force_length > 0) on a generator that
\* learned no target, where the draw of a type fails on the empty table.
C14_FailureCondition ==
    GenerateReturned
    => \A c \in BuildTargetCalls(last, generator.cls) :
          IF c.drew THEN FailsIffExceeds(c, gen_targets_by_type)
          ELSE /\ c.status = EmptyTableError
               /\ generator.cls = "BuildTargetSet"
               /\ last.count > 0
               /\ IsEmptyTable(generator.types)

\* C14 witness: with a target registered, a call that drew two types failed
\* on a tally
C14_Witness ==
    /\ generator.cls = "BuildTargetSet"
    /\ GenerateReturned
    /\ Committed >= 1
    /\ last.status = GenerationFailedException
    /\ \E c \in BuildTargetCalls(last, generator.cls) :
          c.drew /\ Len(c.draws) = 2 /\ Exceeds(c.draws, gen_targets_by_type)

\* the SourcePathSetGenerator of the generator the driver constructed
HasSourcePathSet(g) ==
    \/ g.cls \in {"SourcePathSet", "SourcesWithFlags"}
    \/ g.cls = "Singleton" /\ g.set_generator.cls = "SourcePathSet"

SourcePathSetOf(g) ==
    CASE g.cls = "SourcePathSet" -> g
      [] g.cls = "SourcesWithFlags" -> g.source_path_set_generator
      [] g.cls = "Singleton" -> g.set_generator

\* the last driver call came to the two calls of
\* SourcePathSetGenerator.generate on the nested generators
CalledNested(l) == CallsAt(l, "BuildTargetSet") # {}

\* C15 as stated: whenever SourcePathSetGenerator.generate calls its two
\* nested generators and neither raises GenerationFailedException, the
\* BuildTargetSetGenerator returned build_target_count elements and the
\* PathSetGenerator path_count elements, the two counts add up to a length of
\* the length table, and neither assertion fails.
C15_CheckedInvariant ==
    (/\ HasSourcePathSet(generator)
     /\ GenerateReturned
     /\ CalledNested(last)
     /\ \A k \in 1..Len(last.calls) :
           last.calls[k].status # GenerationFailedException)
    => /\ last.status # "AssertionError"
       /\ \E k \in CallsAt(last, "BuildTargetSet") :
          \E j \in CallsAt(last, "PathSet") :
             /\ last.calls[k].status = OK
             /\ Len(last.calls[k].value) = last.calls[k].count
             /\ last.calls[j].status = OK
             /\ Len(last.calls[j].value) = last.calls[j].count
             /\ last.calls[k].count + last.calls[j].count
                   \in BagToSet(SourcePathSetOf(generator).lengths)

\* C15, for the calls that returned: every nested call that returned has the
\* forced length, the counts add up to a learned length, and no assertion
\* fails; a call without both results ended with GenerationFailedException
\* or with an exception of _generate_path that is not converted
C15_AssertionsNeverFail ==
    (HasSourcePathSet(generator) /\ GenerateReturned /\ CalledNested(last))
    => /\ last.status # "AssertionError"
       /\ \A k \in CallsAt(last, "BuildTargetSet")
                    \cup CallsAt(last, "PathSet") :
             /\ last.calls[k].status = OK =>
                   Len(last.calls[k].value) = last.calls[k].count
             /\ last.calls[k].status \in
                   {OK, GenerationFailedException, "IsADirectoryError",
                    "TypeError"}
       /\ \A k \in CallsAt(last, "BuildTargetSet") :
          \A j \in CallsAt(last, "PathSet") :
             last.calls[k].count + last.calls[j].count
                \in BagToSet(SourcePathSetOf(generator).lengths)

\* C15 witness: the BuildTargetSetGenerator returned, and the
\* PathSetGenerator ended with the IsADirectoryError of open
C15_Witness ==
    /\ generator.cls = "SourcePathSet"
    /\ GenerateReturned
    /\ last.status = "IsADirectoryError"
    /\ \E k \in CallsAt(last, "BuildTargetSet") : last.calls[k].status = OK
    /\ \E j \in CallsAt(last, "PathSet") :
          last.calls[j].status = "IsADirectoryError"

\* the lengths of the flag lists of the learned entries; an entry that is a
\* bare source has none
LearnedFlagCounts ==
    UNION {{Len(sample[i].flags) : i \in 1..Len(sample)} : sample \in Learned}

\* C16: a successful SourcesWithFlagsGenerator.generate returns one entry for
\* each generated source path, in the order of the source paths; the entry is
\* the source path itself when the flag count drawn for it is 0, and the list
\* [source path, flags] otherwise, with as many flags as the count drawn, a
\* count that is the length of the flag list of a learned entry.
C16_EntryShape ==
    (/\ generator.cls = "SourcesWithFlags"
     /\ GenerateReturned
     /\ last.status = OK)
    => \A k \in CallsAt(last, "SourcePathSet") :
          LET source_paths == last.calls[k].value
          IN /\ Len(last.value) = Len(source_paths)
             /\ Len(last.calls) = k + Len(source_paths)
             /\ \A i \in 1..Len(source_paths) :
                   LET call == last.calls[k + i]
                       entry == last.value[i]
                   IN /\ call.cls = "_generate_source_with_flags"
                      /\ call.status = OK
                      /\ call.value = entry
                      /\ entry.source = source_paths[i]
                      /\ call.count \in LearnedFlagCounts
                      /\ IF call.count = 0
                         THEN entry = Source(source_paths[i])
                         ELSE /\ entry.is_list
                              /\ Len(entry.flags) = call.count

\* C16 witness: a returned list of two entries, a bare source path and a
\* source path with a flag
C16_Witness ==
    /\ generator.cls = "SourcesWithFlags"
    /\ GenerateReturned
    /\ last.status = OK
    /\ Len(last.value) = 2
    /\ \E i, j \in 1..2 :
          /\ ~last.value[i].is_list
          /\ last.value[j].is_list
          /\ Len(last.value[j].flags) = 1

\* C17: when the BuildTargetSetGenerator.generate call of a
\* SourcePathSetGenerator.generate raises GenerationFailedException, the
\* PathSetGenerator has not been called: no _generate_path ran, the
\* filesystem is as it was before the call, and the call ends with
\* GenerationFailedException.
C17_BuildTargetsFirst ==
    [][(/\ ngenerates' = ngenerates + 1
        /\ HasSourcePathSet(generator)
        /\ \E k \in CallsAt(last', "BuildTargetSet") :
              last'.calls[k].status = GenerationFailedException)
       => /\ filesystem' = filesystem
          /\ CallsAt(last', "PathSet") = {}
          /\ CallsAt(last', "_generate_path") = {}
          /\ last'.status = GenerationFailedException
      ]_vars

\* C17 witness: a generator whose samples all had two sources failed for a
\* missing target with one build target and one path to generate
C17_Witness ==
    /\ generator.cls = "SourcePathSet"
    /\ BagToSet(generator.lengths) = {2}
    /\ GenerateReturned
    /\ last.status = GenerationFailedException
    /\ \E k \in CallsAt(last, "BuildTargetSet") :
          /\ last.calls[k].count = 1
          /\ last.calls[k].status = GenerationFailedException

\* C18: when a generate call ends with GenerationFailedException after
\* _generate_path calls of it have returned paths, these paths, absent before
\* the call, are empty files after it, each in a directory, nothing that was
\* in the filesystem is removed, and no path is returned to the caller.
C18_NoRollback ==
    [][(/\ ngenerates' = ngenerates + 1
        /\ last'.status = GenerationFailedException)
       => \A k \in CallsAt(last', "_generate_path") :
             last'.calls[k].status = OK =>
                LET path == last'.calls[k].value
                IN /\ ~os_path_exists(filesystem, FullPath(path))
                   /\ IsEmptyFile(filesystem', path)
                   /\ os_path_isdir(filesystem',
                                    os_path_dirname(FullPath(path)))
                   /\ \A n \in DOMAIN filesystem :
                         n \in DOMAIN filesystem'
                         /\ filesystem'[n] = filesystem[n]
                   /\ last'.value = <<>>
                   /\ returned' = returned
      ]_vars

\* C18 witness: no path was ever returned, and the first _generate_path of
\* a second generate call raised GenerationFailedException on a file that
\* the first, failed, call left behind
C18_Witness ==
    /\ generator.cls = "PathSet"
    /\ ngenerates = 2
    /\ returned = {}
    /\ GenerateReturned
    /\ last.status = GenerationFailedException
    /\ last.calls # <<>>
    /\ last.calls[1].status = GenerationFailedException
    /\ IsEmptyFile(filesystem, last.calls[1].value)

\* the node a returned path names
NodeOf(tree, path) == Stat(tree, FullPath(path)).node

IsProperPrefix(n, m) == Len(n) < Len(m) /\ SubSeq(m, 1, Len(n)) = n

\* a directory name of full_path, up to one of its slashes, is a file
HasFileAncestor(tree, full_path) ==
    \E i \in 2..Len(full_path) :
        /\ full_path[i] = SLASH
        /\ LET s == Resolve(tree, SubSeq(full_path, 1, i - 1))
           IN s.st = "ok" /\ tree[s.node] # "dir"

\* the first _generate_path call of a driver call
FirstAllocation(l) ==
    CHOOSE k \in CallsAt(l, "_generate_path") :
        \A j \in CallsAt(l, "_generate_path") : k <= j

\* C19: after every step of the single-threaded driver, started on an empty
\* output repository, each path returned so far names an empty file and the
\* file of no returned path lies above the file of another; and a
\* _generate_path whose candidate is an existing directory, or has a file
\* for one of its directory names, raises GenerationFailedException and
\* leaves the filesystem as it was.
C19_PrefixFree ==
    [][/\ \A path \in returned' :
             /\ IsEmptyFile(filesystem', path)
             /\ \A other \in returned' :
                   ~IsProperPrefix(NodeOf(filesystem', path),
                                   NodeOf(filesystem', other))
       /\ (/\ ngenerates' = ngenerates + 1
           /\ CallsAt(last', "_generate_path") # {})
          => LET call == last'.calls[FirstAllocation(last')]
                 full_path == FullPath(call.value)
             IN (/\ call.status \notin {EmptyTableError, "TypeError"}
                 /\ \/ os_path_isdir(filesystem, full_path)
                    \/ HasFileAncestor(filesystem, full_path))
                => /\ call.status = GenerationFailedException
                   /\ filesystem' = filesystem
      ]_vars

\* C19 witness: with a path returned, the first _generate_path of a later
\* call raised GenerationFailedException on a candidate below a file
C19_Witness ==
    /\ generator.cls = "PathSet"
    /\ returned # {}
    /\ GenerateReturned
    /\ last.calls # <<>>
    /\ last.calls[1].status = GenerationFailedException
    /\ HasFileAncestor(filesystem, FullPath(last.calls[1].value))

\* the same for a candidate that is a directory
C19_WitnessDirectory ==
    /\ generator.cls = "PathSet"
    /\ returned # {}
    /\ GenerateReturned
    /\ last.calls # <<>>
    /\ last.calls[1].status = GenerationFailedException
    /\ last.calls[1].value # <<>>
    /\ os_path_isdir(filesystem, FullPath(last.calls[1].value))

IsAbsolute(p) == p # <<>> /\ p[1] = SLASH

HasAbsolute(sample) == \E i \in 1..Len(sample) : IsAbsolute(sample[i])

\* the number of the paths of the samples of a bag
RECURSIVE PathCount(_)
PathCount(bag) ==
    IF BagToSet(bag) = {} THEN 0
    ELSE LET x == CHOOSE y \in BagToSet(bag) : TRUE
         IN Len(x) + PathCount(bag (-) SetToBag({x}))

\* C20 as stated: every PathSetGenerator.add_sample call returns, the while
\* loop of each path, absolute paths included, coming to an empty remainder.
C20_AddSampleTerminates ==
    (splitting.pc # "idle") ~> (splitting.pc = "idle")

\* C20, for samples without an absolute path: add_sample returns, having
\* recorded one component count for each path and learned what
\* PathSetGenerator.add_sample is modelled to learn in one step
C20_RelativeTerminates ==
    /\ (splitting.pc # "idle" /\ ~HasAbsolute(splitting.sample))
          ~> (splitting.pc = "idle")
    /\ [](splitting.pc = "idle" =>
            /\ BagCardinality(generator.component_counts)
                  = PathCount(learned_samples)
            /\ generator = FeedAll(PathSetGenerator,
                                   [x \in {Some(y) : y \in Learned} |->
                                       CopiesIn(x.sample, learned_samples)]))

\* C20 witness: the while loop turns on the remainder "/" of an absolute
\* path, having appended the component "" twice
C20_Witness ==
    /\ splitting.pc = "while"
    /\ splitting.path = <<SLASH>>
    /\ Len(splitting.components) >= 2
    /\ splitting.components[Len(splitting.components)] = <<>>
    /\ splitting.components[Len(splitting.components) - 1] = <<>>

====
